---- MODULE Spec2Model ----
(***************************************************************************)
(* The task-loop controller AutonomousAgent (src/unnamed/part_000) and its *)
(* caller (src/src/pages/index.tsx).                                       *)
(*                                                                         *)
(* JavaScript runs each synchronous stretch of code to completion, so one  *)
(* action is the code between two suspension points (an await on a timer   *)
(* or on the execution call); stopAgent is a synchronous call made by the  *)
(* caller while the run is suspended.                                      *)
(***************************************************************************)
EXTENDS Integers, Sequences, FiniteSets, TLC

\* ------------------------------------------------------------- bounds
\* Longest decomposed task list explored (a prefix of the list of run()).
MaxTasks == 4
\* Largest customMaxLoops override explored.
MaxOverride == 2
\* Most calls of stopAgent the caller makes during one run.
MaxStops == 2

\* ---------------------------------------------------------- constants
\* ../utils/constants is imported, not defined, by the controller; the
\* values keep only the order the specification states (free tier lowest).
DEFAULT_MAX_LOOPS_FREE == 2
DEFAULT_MAX_LOOPS_PAID == 3
DEFAULT_MAX_LOOPS_CUSTOM_API_KEY == 4

\* The task list run() assigns (line 54).
InitialTasks ==
  << "Introduction", "Concept", "Problem it aims to solve", "Target audience",
     "Unique selling point", "Competitors", "Market fit",
     "Specific details to consider" >>

\* The statuses a failed execution call can carry: HTTP 429 and another one.
FailStatuses == {429, 500}

VARIABLES
  modelSettings,   \* [customApiKey, customMaxLoops]; customMaxLoops is {} (absent) or {k}
  session,         \* "none" (no session), "free" (no subscriptionId), "paid"
  decomposition,   \* the task list the decomposition step of this run yields
  tasks,           \* this.tasks
  completedTasks,  \* this.completedTasks
  runningTasks,    \* this.runningTasks
  isRunning,       \* this.isRunning
  numLoops,        \* this.numLoops
  pc,              \* where the run is suspended, or how it ended
  idx,             \* position of the for-of loop of run() in this.tasks
  currentTask,     \* the local currentTask of loop(): {} or {task}
  maxLoopsLocal,   \* the local maxLoops of loop(): {} before the first tick, or {cap}
  sink,            \* the messages renderMessage has received, in order
  shutdownCalls,   \* how many times the shutdown callback has been invoked
  execLog,         \* the calls of executeTask: [task, running], running = isRunning at the call
  outcomes,        \* the status each settled execution call ended with (200 = success)
  stopLog          \* the calls of stopAgent: [at, execs, sinkLen] as each returned

vars == << modelSettings, session, decomposition, tasks, completedTasks,
           runningTasks, isRunning, numLoops, pc, idx, currentTask,
           maxLoopsLocal, sink, shutdownCalls, execLog, outcomes, stopLog >>

config == << modelSettings, session, decomposition >>

\* ------------------------------------------------------------ messages
Message(type, info, value) == [type |-> type, info |-> info, value |-> value]

GoalMessage == Message("goal", "", "goal")
ThinkingMessage == Message("thinking", "", "")
TaskMessage(task) == Message("task", "", task)
ExecutionMessage(task, execution) == Message("action", task, execution)
CompletedMessage == Message("system", "", "All tasks completed. Shutting down.")
ManualShutdownMessage == Message("system", "", "The agent has been manually shutdown.")
RateLimitMessage == Message("system", "", "Rate limit exceeded. Please slow down.")
LoopMessage(settings) ==
  Message("system", "",
          IF settings.customApiKey # ""
            THEN "This agent has maxed out on loops."
            ELSE "We're sorry, because this is a demo")

\* sendMessage delivering every message, stopped or not.
sendMessageUngated(s, running, m) == Append(s, m)

\* sendMessage (lines 162-166): the sink s after message m is sent.
sendMessage(s, running, m) == IF running THEN Append(s, m) ELSE s

\* ------------------------------------------------------- loop-cap
Truthy(opt) == opt # {} /\ opt # {0}
ValueOf(opt) == CHOOSE k \in opt : TRUE

\* maxLoops letting a paid identity override the custom-key branch.
maxLoopsPaidFirst(sess, settings) ==
  IF sess = "paid" THEN DEFAULT_MAX_LOOPS_PAID
  ELSE IF settings.customApiKey # ""
    THEN IF Truthy(settings.customMaxLoops)
           THEN ValueOf(settings.customMaxLoops)
           ELSE DEFAULT_MAX_LOOPS_CUSTOM_API_KEY
    ELSE DEFAULT_MAX_LOOPS_FREE

\* maxLoops (lines 108-116).
maxLoops(sess, settings) ==
  LET defaultLoops == IF sess = "paid" THEN DEFAULT_MAX_LOOPS_PAID
                                       ELSE DEFAULT_MAX_LOOPS_FREE
  IN IF settings.customApiKey # ""
       THEN IF Truthy(settings.customMaxLoops)
              THEN ValueOf(settings.customMaxLoops)
              ELSE DEFAULT_MAX_LOOPS_CUSTOM_API_KEY
       ELSE defaultLoops

\* The cap test off by one.
capExceededAtCap(n, cap) == n >= cap

\* The cap test letting one tick too many through.
capExceededLate(n, cap) == n > cap + 1

\* numLoops > maxLoops (line 85).
capExceeded(n, cap) == n > cap

\* shouldRunClientSide (lines 151-153).
shouldRunClientSide(settings) == settings.customApiKey # ""

\* ----------------------------------------------------------- state
Configurations ==
  [customApiKey : {"", "sk-key"},
   customMaxLoops : {{}} \cup {{k} : k \in 0..MaxOverride}]

Init ==
  /\ modelSettings \in Configurations
  /\ session \in {"none", "free", "paid"}
  /\ decomposition \in {SubSeq(InitialTasks, 1, n) : n \in 0..MaxTasks}
  /\ tasks = << >>
  /\ completedTasks = << >>
  /\ runningTasks = << >>
  /\ isRunning = TRUE
  /\ numLoops = 0
  /\ pc = "constructed"
  /\ idx = 0
  /\ currentTask = {}
  /\ maxLoopsLocal = {}
  /\ sink = << >>
  /\ shutdownCalls = 0
  /\ execLog = << >>
  /\ outcomes = << >>
  /\ stopLog = << >>

\* ------------------------------------------------------------- loop
\* The top of a tick tested for the cap before the empty queue.
loopCapFirst(s, q) ==
  IF ~isRunning
    THEN /\ pc' = "returned"
         /\ sink' = s
         /\ UNCHANGED << numLoops, maxLoopsLocal, shutdownCalls >>
  ELSE LET cap == maxLoops(session, modelSettings) IN
    /\ numLoops' = numLoops + 1
    /\ maxLoopsLocal' = {cap}
    /\ IF capExceeded(numLoops + 1, cap)
         THEN /\ sink' = sendMessage(s, isRunning, LoopMessage(modelSettings))
              /\ shutdownCalls' = shutdownCalls + 1
              /\ pc' = "capped"
       ELSE IF q = << >>
         THEN /\ sink' = sendMessage(s, isRunning, CompletedMessage)
              /\ shutdownCalls' = shutdownCalls + 1
              /\ pc' = "completed"
       ELSE /\ sink' = s
            /\ pc' = "startDelay"
            /\ UNCHANGED shutdownCalls

\* The top of a tick counting only the ticks that go on to work.
loopCountsOnlyWork(s, q) ==
  IF ~isRunning
    THEN /\ pc' = "returned"
         /\ sink' = s
         /\ UNCHANGED << numLoops, maxLoopsLocal, shutdownCalls >>
  ELSE IF q = << >>
    THEN /\ sink' = sendMessage(s, isRunning, CompletedMessage)
         /\ shutdownCalls' = shutdownCalls + 1
         /\ pc' = "completed"
         /\ UNCHANGED << numLoops, maxLoopsLocal >>
  ELSE LET cap == maxLoops(session, modelSettings) IN
    /\ maxLoopsLocal' = {cap}
    /\ IF capExceeded(numLoops + 1, cap)
         THEN /\ sink' = sendMessage(s, isRunning, LoopMessage(modelSettings))
              /\ shutdownCalls' = shutdownCalls + 1
              /\ pc' = "capped"
              /\ UNCHANGED numLoops
         ELSE /\ sink' = s
              /\ pc' = "startDelay"
              /\ numLoops' = numLoops + 1
              /\ UNCHANGED shutdownCalls

\* loop() from its entry to its first await (lines 69-92), entered with the
\* sink s and the queue q its caller leaves.
loop(s, q) ==
  IF ~isRunning
    THEN /\ pc' = "returned"
         /\ sink' = s
         /\ UNCHANGED << numLoops, maxLoopsLocal, shutdownCalls >>
  ELSE IF q = << >>
    THEN /\ sink' = sendMessage(s, isRunning, CompletedMessage)
         /\ shutdownCalls' = shutdownCalls + 1
         /\ pc' = "completed"
         /\ UNCHANGED << numLoops, maxLoopsLocal >>
  ELSE LET cap == maxLoops(session, modelSettings) IN
    /\ numLoops' = numLoops + 1
    /\ maxLoopsLocal' = {cap}
    /\ IF capExceeded(numLoops + 1, cap)
         THEN /\ sink' = sendMessage(s, isRunning, LoopMessage(modelSettings))
              /\ shutdownCalls' = shutdownCalls + 1
              /\ pc' = "capped"
         ELSE /\ sink' = s
              /\ pc' = "startDelay"
              /\ UNCHANGED shutdownCalls

\* run() returning without loop() when there is no task.
RunSkipsEmptyLoop ==
  /\ pc = "constructed"
  /\ tasks' = decomposition
  /\ sink' = sendMessage(sendMessage(sink, isRunning, GoalMessage),
                         isRunning, ThinkingMessage)
  /\ IF decomposition = << >>
       THEN pc' = "returned" /\ UNCHANGED idx
       ELSE pc' = "taskDelay" /\ idx' = 1
  /\ UNCHANGED << config, completedTasks, runningTasks, isRunning, currentTask,
                  numLoops, maxLoopsLocal, shutdownCalls, execLog, outcomes,
                  stopLog >>

\* run() up to its first await (lines 48-56); with no task to announce it
\* goes straight into loop() (line 66).
Run ==
  /\ pc = "constructed"
  /\ tasks' = decomposition
  /\ LET s == sendMessage(sendMessage(sink, isRunning, GoalMessage),
                          isRunning, ThinkingMessage)
     IN IF decomposition = << >>
          THEN /\ loop(s, decomposition)
               /\ UNCHANGED idx
          ELSE /\ sink' = s
               /\ idx' = 1
               /\ pc' = "taskDelay"
               /\ UNCHANGED << numLoops, maxLoopsLocal, shutdownCalls >>
  /\ UNCHANGED << config, completedTasks, runningTasks, isRunning, currentTask,
                  execLog, outcomes, stopLog >>

\* The TIMOUT_SHORT timer of run() fires (lines 56-58, then 66).
TaskTimer ==
  /\ pc = "taskDelay"
  /\ LET s == sendMessage(sink, isRunning, TaskMessage(tasks[idx]))
     IN IF idx < Len(tasks)
          THEN /\ sink' = s
               /\ idx' = idx + 1
               /\ UNCHANGED << pc, numLoops, maxLoopsLocal, shutdownCalls >>
          ELSE /\ loop(s, tasks)
               /\ UNCHANGED idx
  /\ UNCHANGED << config, tasks, completedTasks, runningTasks, isRunning,
                  currentTask, execLog, outcomes, stopLog >>

\* The tick executing the front task without taking it off the queue.
StartTimerNoShift ==
  /\ pc = "startDelay"
  /\ completedTasks' = Append(completedTasks, Head(tasks))
  /\ currentTask' = {Head(tasks)}
  /\ sink' = sendMessage(sink, isRunning, ThinkingMessage)
  /\ execLog' = Append(execLog, [task |-> Head(tasks), running |-> isRunning])
  /\ pc' = "executing"
  /\ UNCHANGED << config, tasks, runningTasks, isRunning, numLoops, idx,
                  maxLoopsLocal, shutdownCalls, outcomes, stopLog >>

\* The tick recording this.tasks[0] || "" after the shift instead of before.
StartTimerPushAfterShift ==
  /\ pc = "startDelay"
  /\ completedTasks' = Append(completedTasks,
                              IF Tail(tasks) = << >> THEN "" ELSE Head(Tail(tasks)))
  /\ currentTask' = {Head(tasks)}
  /\ tasks' = Tail(tasks)
  /\ sink' = sendMessage(sink, isRunning, ThinkingMessage)
  /\ execLog' = Append(execLog, [task |-> Head(tasks), running |-> isRunning])
  /\ pc' = "executing"
  /\ UNCHANGED << config, runningTasks, isRunning, numLoops, idx,
                  maxLoopsLocal, shutdownCalls, outcomes, stopLog >>

\* The first TIMEOUT_LONG timer of a tick fires (lines 92-100): the task is
\* taken from the queue and executeTask is called.
StartTimer ==
  /\ pc = "startDelay"
  /\ completedTasks' = Append(completedTasks, Head(tasks))
  /\ currentTask' = {Head(tasks)}
  /\ tasks' = Tail(tasks)
  /\ sink' = sendMessage(sink, isRunning, ThinkingMessage)
  /\ execLog' = Append(execLog, [task |-> Head(tasks), running |-> isRunning])
  /\ pc' = "executing"
  /\ UNCHANGED << config, runningTasks, isRunning, numLoops, idx,
                  maxLoopsLocal, shutdownCalls, outcomes, stopLog >>

\* The execution call returns (lines 100-104).
ExecResolve ==
  /\ pc = "executing"
  /\ LET task == ValueOf(currentTask)
     IN /\ sink' = sendMessage(sink, isRunning, ExecutionMessage(task, "response"))
        /\ runningTasks' = Append(runningTasks, task)
  /\ outcomes' = Append(outcomes, 200)
  /\ pc' = "endDelay"
  /\ UNCHANGED << config, tasks, completedTasks, isRunning, numLoops, idx,
                  currentTask, maxLoopsLocal, shutdownCalls, execLog, stopLog >>

\* post() sending its notice for every failure, rate-limited or not.
ExecRejectAlwaysNotifies ==
  /\ pc = "executing"
  /\ \E status \in FailStatuses :
       /\ outcomes' = Append(outcomes, status)
       /\ IF shouldRunClientSide(modelSettings)
            THEN UNCHANGED << sink, shutdownCalls >>
            ELSE /\ shutdownCalls' = shutdownCalls + 1
                 /\ sink' = sendMessage(sink, isRunning, RateLimitMessage)
  /\ pc' = "rejected"
  /\ UNCHANGED << config, tasks, completedTasks, runningTasks, isRunning,
                  numLoops, idx, currentTask, maxLoopsLocal, execLog, stopLog >>

\* A failed execution call swallowed: the tick goes on to its second delay.
ExecRejectContinues ==
  /\ pc = "executing"
  /\ \E status \in FailStatuses :
       /\ outcomes' = Append(outcomes, status)
       /\ IF shouldRunClientSide(modelSettings)
            THEN UNCHANGED << sink, shutdownCalls >>
            ELSE /\ shutdownCalls' = shutdownCalls + 1
                 /\ sink' = IF status = 429
                              THEN sendMessage(sink, isRunning, RateLimitMessage)
                              ELSE sink
  /\ pc' = "endDelay"
  /\ UNCHANGED << config, tasks, completedTasks, runningTasks, isRunning,
                  numLoops, idx, currentTask, maxLoopsLocal, execLog, stopLog >>

\* The execution call fails (lines 118-149): post() catches a failure of the
\* remote call and throws it again, the local call has no handler, and
\* neither loop() nor run() catches, so the run ends rejected.
ExecReject ==
  /\ pc = "executing"
  /\ \E status \in FailStatuses :
       /\ outcomes' = Append(outcomes, status)
       /\ IF shouldRunClientSide(modelSettings)
            THEN UNCHANGED << sink, shutdownCalls >>
            ELSE /\ shutdownCalls' = shutdownCalls + 1
                 /\ sink' = IF status = 429
                              THEN sendMessage(sink, isRunning, RateLimitMessage)
                              ELSE sink
  /\ pc' = "rejected"
  /\ UNCHANGED << config, tasks, completedTasks, runningTasks, isRunning,
                  numLoops, idx, currentTask, maxLoopsLocal, execLog, stopLog >>

\* The second TIMEOUT_LONG timer of a tick fires (lines 104-105).
EndTimer ==
  /\ pc = "endDelay"
  /\ loop(sink, tasks)
  /\ UNCHANGED << config, tasks, completedTasks, runningTasks, isRunning, idx,
                  currentTask, execLog, outcomes, stopLog >>

Suspended == pc \in {"taskDelay", "startDelay", "executing", "endDelay"}

\* stopAgent leaving the flag set.
StopAgentKeepsFlag ==
  /\ Suspended
  /\ Len(stopLog) < MaxStops
  /\ sink' = sendMessage(sink, isRunning, ManualShutdownMessage)
  /\ shutdownCalls' = shutdownCalls + 1
  /\ stopLog' = Append(stopLog, [at |-> pc, execs |-> Len(execLog), sinkLen |-> Len(sink')])
  /\ UNCHANGED << config, tasks, completedTasks, runningTasks, isRunning,
                  numLoops, pc, idx, currentTask, maxLoopsLocal, execLog,
                  outcomes >>

\* stopAgent clearing the flag before it sends its message.
StopAgentFlagFirst ==
  /\ Suspended
  /\ Len(stopLog) < MaxStops
  /\ isRunning' = FALSE
  /\ sink' = sendMessage(sink, isRunning', ManualShutdownMessage)
  /\ shutdownCalls' = shutdownCalls + 1
  /\ stopLog' = Append(stopLog, [at |-> pc, execs |-> Len(execLog), sinkLen |-> Len(sink')])
  /\ UNCHANGED << config, tasks, completedTasks, runningTasks, numLoops, pc,
                  idx, currentTask, maxLoopsLocal, execLog, outcomes >>

\* stopAgent (lines 155-160), called by handleStopAgent (index.tsx lines
\* 78-81) while the run is suspended.
StopAgent ==
  /\ Suspended
  /\ Len(stopLog) < MaxStops
  /\ sink' = sendMessage(sink, isRunning, ManualShutdownMessage)
  /\ isRunning' = FALSE
  /\ shutdownCalls' = shutdownCalls + 1
  /\ stopLog' = Append(stopLog, [at |-> pc, execs |-> Len(execLog), sinkLen |-> Len(sink')])
  /\ UNCHANGED << config, tasks, completedTasks, runningTasks, numLoops, pc,
                  idx, currentTask, maxLoopsLocal, execLog, outcomes >>

\* The steps the run itself takes.
Step == Run \/ TaskTimer \/ StartTimer \/ ExecResolve \/ ExecReject \/ EndTimer

Next ==
  \/ Run
  \/ TaskTimer
  \/ StartTimer
  \/ ExecResolve
  \/ ExecReject
  \/ EndTimer
  \/ StopAgent

Spec == Init /\ [][Next]_vars

\* Every timer fires and every execution call settles; nothing obliges the
\* caller to stop the agent.
FairSpec == Spec /\ WF_vars(Step)

\* =============================================================== claims
N == Len(decomposition)
Cap == maxLoops(session, modelSettings)
Remote == ~shouldRunClientSide(modelSettings)
NoStop == stopLog = << >>
NoFailure == \A i \in 1..Len(outcomes) : outcomes[i] = 200
Terminated == pc \in {"returned", "completed", "capped", "rejected"}

IsAction(m) == m.type = "action"
Actions == SelectSeq(sink, IsAction)
ActionTasks == [i \in 1..Len(Actions) |-> Actions[i].info]
Count(m) == Cardinality({i \in 1..Len(sink) : sink[i] = m})
IsPrefix(s, t) == Len(s) <= Len(t) /\ s = SubSeq(t, 1, Len(s))

\* C1: with N >= 1 tasks, a cap >= N, no failed execution and no stop, the
\* sink gets exactly N "action" messages, the i-th for the i-th decomposed
\* task, and the run ends by natural completion (completion message last,
\* shutdown invoked), never by the cap.
C1Case == N >= 1 /\ Cap >= N /\ NoStop /\ NoFailure
C1Safe ==
  C1Case =>
    /\ IsPrefix(ActionTasks, decomposition)
    /\ pc \notin {"capped", "returned"}
    /\ Count(LoopMessage(modelSettings)) = 0
    /\ Terminated =>
         /\ pc = "completed"
         /\ ActionTasks = decomposition
         /\ sink[Len(sink)] = CompletedMessage
         /\ Count(CompletedMessage) = 1
         /\ shutdownCalls = 1
C1_NaturalCompletion == [] C1Safe /\ <>(~C1Case \/ pc = "completed")
C1_Witness ==
  /\ C1Case /\ pc = "completed" /\ N = Cap
  /\ Len(Actions) = N /\ sink[Len(sink)] = CompletedMessage

\* C2: with a cap C < N, no failed execution and no stop, the sink gets
\* exactly C "action" messages, then the cap-exceeded message, shutdown
\* is invoked, and completedTasks has length C when the run has ended.
C2Case == Cap < N /\ NoStop /\ NoFailure
C2_CapExceeded ==
  C2Case =>
    /\ Len(Actions) <= Cap
    /\ pc \notin {"completed", "returned"}
    /\ Terminated =>
         /\ pc = "capped"
         /\ Len(Actions) = Cap
         /\ ActionTasks = SubSeq(decomposition, 1, Cap)
         /\ sink[Len(sink)] = LoopMessage(modelSettings)
         /\ Count(LoopMessage(modelSettings)) = 1
         /\ shutdownCalls = 1
         /\ Len(completedTasks) = Cap
C2_Witness ==
  /\ C2Case /\ pc = "capped" /\ Len(Actions) = Cap
  /\ Len(completedTasks) = Cap /\ Len(tasks) >= 1

\* C3: after a call of stopAgent has returned, the sink receives nothing
\* more, wherever the run was suspended and whatever the execution call in
\* flight does later.
C3_SilentAfterStop == ~NoStop => Len(sink) = stopLog[1].sinkLen
C3_Witness ==
  /\ ~NoStop /\ stopLog[1].at = "executing"
  /\ Len(outcomes) = stopLog[1].execs
  /\ outcomes[Len(outcomes)] = 200
  /\ pc = "returned"

\* C4: no task is taken from the queue and handed to the Task-Execution
\* Capability at a moment when isRunning is already false.
C4_NoExecutionAfterStop == \A i \in 1..Len(execLog) : execLog[i].running

\* C5: in a run with at most one call of stopAgent the shutdown callback is
\* invoked at most once.
C5_ShutdownAtMostOnce == Len(stopLog) <= 1 => shutdownCalls <= 1

\* C6: every run eventually invokes the shutdown callback, given that every
\* timer fires and every execution call returns or fails.
C6_ShutdownEventually == <>(shutdownCalls >= 1)

\* C7: one call of stopAgent before the first execution call leaves the sink
\* with no "action" message and exactly one manual-shutdown message.
C7Case == Len(stopLog) = 1 /\ stopLog[1].execs = 0
C7_StopBeforeExecution ==
  C7Case => Len(Actions) = 0 /\ Count(ManualShutdownMessage) = 1
C7_Witness ==
  /\ C7Case /\ stopLog[1].at = "startDelay"
  /\ outcomes = << 200 >> /\ pc = "returned"

\* C8: in remote mode with a non-empty task list, every execution call
\* failing with HTTP 429 and no stop, there is one execution call, one
\* rate-limit message, no "action" message, and no tick after the failure.
C8Case ==
  /\ Remote /\ N >= 1 /\ NoStop
  /\ \A i \in 1..Len(outcomes) : outcomes[i] = 429
C8_RateLimited ==
  C8Case =>
    /\ Len(Actions) = 0
    /\ Len(execLog) <= 1
    /\ Count(RateLimitMessage) = Len(outcomes)
    /\ Len(outcomes) >= 1 =>
         /\ pc = "rejected"
         /\ Len(outcomes) = 1
         /\ numLoops = 1
         /\ Len(completedTasks) = 1
         /\ Len(tasks) = N - 1
         /\ Count(CompletedMessage) = 0
C8_Witness ==
  /\ C8Case /\ outcomes = << 429 >> /\ pc = "rejected"
  /\ Len(tasks) >= 1 /\ Count(RateLimitMessage) = 1

\* C9: the cap a tick resolves is the free-tier constant with no credential
\* and no paid identity, the paid-tier constant with no credential and a
\* paid identity, the custom-key default with a credential and an override
\* absent or zero, the override K with a credential and K non-zero; with a
\* credential it is the same for every identity.
C9Expected ==
  IF modelSettings.customApiKey = ""
    THEN IF session = "paid" THEN DEFAULT_MAX_LOOPS_PAID
                             ELSE DEFAULT_MAX_LOOPS_FREE
    ELSE IF modelSettings.customMaxLoops \in {{}, {0}}
      THEN DEFAULT_MAX_LOOPS_CUSTOM_API_KEY
      ELSE ValueOf(modelSettings.customMaxLoops)
C9_LoopCapResolution ==
  maxLoopsLocal # {} =>
    /\ maxLoopsLocal = {C9Expected}
    /\ modelSettings.customApiKey # "" =>
         \A sess \in {"none", "free", "paid"} :
           maxLoopsLocal = {maxLoops(sess, modelSettings)}
C9_Witness ==
  /\ modelSettings = [customApiKey |-> "sk-key", customMaxLoops |-> {1}]
  /\ session = "paid"
  /\ maxLoopsLocal = {1}
  /\ pc = "capped"

\* C10 as stated: isRunning is true from construction, false once the run
\* has ended by natural completion, by the cap or by an external stop, and
\* never true again once false.
C10_FalseAfterTermination ==
  /\ [](pc = "constructed" => isRunning)
  /\ []((pc \in {"completed", "capped"} \/ ~NoStop) => ~isRunning)
  /\ [][~isRunning => ~isRunning']_vars

\* C10 as amended: isRunning is true from construction, false in every
\* state after an external stop and only then (natural completion and the
\* cap leave it true), and never true again once false.
C10_FalseOnlyAfterStop ==
  /\ [](isRunning <=> NoStop)
  /\ [][~isRunning => ~isRunning']_vars
C10_Witness == pc = "completed" /\ isRunning /\ shutdownCalls = 1

\* C11: a failing decomposition step. The try block of run() (lines 53-58)
\* holds an array literal, timers and sendTaskMessage, none of which
\* throws, so no behaviour of the controller enters its catch block
\* (lines 59-64) and the claim has no reachable case to check.

\* C12: two calls of stopAgent on a running agent leave exactly one
\* manual-shutdown message in the sink and isRunning false, and invoke the
\* shutdown callback twice (a failed remote call adds its own invocation).
C12Case == Len(stopLog) = 2
C12_StopTwice ==
  C12Case =>
    /\ Count(ManualShutdownMessage) = 1
    /\ ~isRunning
    /\ shutdownCalls = 2 + (IF Remote /\ pc = "rejected" THEN 1 ELSE 0)
C12_Witness ==
  /\ C12Case /\ shutdownCalls = 2 /\ pc = "returned"
  /\ Count(ManualShutdownMessage) = 1

\* C13: without an external stop the sink receives the goal message, one
\* thinking message, then one task message per decomposed task in order,
\* all before the first task is dequeued or executed; the loop is entered
\* with an empty list too, and the completion message comes next.
Announced ==
  << GoalMessage, ThinkingMessage >>
    \o [i \in 1..N |-> TaskMessage(decomposition[i])]
C13_Announcement ==
  NoStop =>
    /\ IsPrefix(sink, Announced) \/ IsPrefix(Announced, sink)
    /\ pc \notin {"constructed", "taskDelay"} => IsPrefix(Announced, sink)
    /\ (completedTasks # << >> \/ execLog # << >>) => IsPrefix(Announced, sink)
    /\ (N = 0 /\ pc # "constructed") =>
         /\ pc = "completed"
         /\ sink = Announced \o << CompletedMessage >>
         /\ shutdownCalls = 1
C13_Witness ==
  /\ NoStop /\ N = 0 /\ pc = "completed"
  /\ sink = << GoalMessage, ThinkingMessage, CompletedMessage >>

\* C14 as stated: numLoops starts at 0, never decreases, and in every
\* reachable state equals the number of tasks dequeued.
C14_CounterIsDequeued ==
  /\ [](pc = "constructed" => numLoops = 0)
  /\ [](numLoops = Len(completedTasks))
  /\ [][numLoops' >= numLoops]_vars

\* C14 as amended: numLoops starts at 0, never decreases, grows by one at a
\* time, and equals the number of tasks dequeued, plus one while a tick
\* waits on its first pacing delay and in the terminal state of a
\* cap-exceeded run (the increment precedes the cap test and the dequeue).
C14_CounterLeadsDequeue ==
  /\ [](pc = "constructed" => numLoops = 0)
  /\ [](numLoops = Len(completedTasks)
                     + (IF pc \in {"startDelay", "capped"} THEN 1 ELSE 0))
  /\ [][numLoops' \in {numLoops, numLoops + 1}]_vars
C14_Witness ==
  pc = "capped" /\ numLoops = Cap + 1 /\ Len(completedTasks) = Cap

\* C15: in every reachable state, stopped or failed or not, the number of
\* execution calls is at most min(N, cap).
Min(a, b) == IF a <= b THEN a ELSE b
C15_CapBoundsExecutions == Len(execLog) <= Min(N, Cap)
C15_Witness ==
  /\ Len(execLog) = Cap /\ Cap < N /\ pc = "capped"

\* C16: when the execution call for a task is made the task is already in
\* completedTasks and in runningTasks and off the queue, so the two
\* records are equal while a call is in flight and after any termination.
C16_BookkeepingBeforeExecution ==
  /\ pc = "executing" =>
       /\ completedTasks # << >>
       /\ completedTasks[Len(completedTasks)] = ValueOf(currentTask)
       /\ runningTasks # << >>
       /\ runningTasks[Len(runningTasks)] = ValueOf(currentTask)
       /\ Len(tasks) = N - Len(completedTasks)
  /\ (pc = "executing" \/ Terminated) => completedTasks = runningTasks

\* C17: when a remote execution call fails with a status other than 429
\* and there was no stop, shutdown is invoked, no "system" message and no
\* "action" message for the failed task is delivered, and no later tick
\* runs: the remaining tasks stay in the queue and no completion message
\* is delivered.
IsSystem(m) == m.type = "system"
C17Case ==
  /\ Remote /\ NoStop /\ outcomes # << >>
  /\ outcomes[Len(outcomes)] \notin {200, 429}
C17_TransportFailure ==
  C17Case =>
    /\ pc = "rejected"
    /\ shutdownCalls = 1
    /\ SelectSeq(sink, IsSystem) = << >>
    /\ ActionTasks = SubSeq(decomposition, 1, Len(outcomes) - 1)
    /\ Len(execLog) = Len(outcomes)
    /\ numLoops = Len(outcomes)
    /\ completedTasks = SubSeq(decomposition, 1, Len(outcomes))
    /\ tasks = SubSeq(decomposition, Len(outcomes) + 1, N)
C17_Witness ==
  /\ C17Case /\ Len(outcomes) = 2 /\ Len(tasks) >= 1
  /\ Len(Actions) = 1 /\ pc = "rejected"

\* C18: at most one execution call is in flight, a call starts only after
\* the one before it has settled, and the tasks passed to the capability
\* are a prefix of the decomposed list, under every interleaving.
ExecutedTasks == [i \in 1..Len(execLog) |-> execLog[i].task]
C18_SequentialInOrder ==
  /\ Len(execLog) - Len(outcomes) = (IF pc = "executing" THEN 1 ELSE 0)
  /\ IsPrefix(ExecutedTasks, decomposition)
C18_Witness ==
  /\ Len(execLog) = 2 /\ Len(outcomes) = 1 /\ ~NoStop /\ pc = "executing"

\* C19: after decomposition, completedTasks followed by the queue is the
\* decomposed list, and the queue has lost one task per dequeuing tick.
C19_QueueConsumedFromFront ==
  pc # "constructed" =>
    /\ completedTasks \o tasks = decomposition
    /\ Len(tasks) = N - Len(execLog)
C19_Witness ==
  /\ Len(completedTasks) = 2 /\ Len(tasks) >= 1
  /\ completedTasks \o tasks = decomposition

====
